---- MODULE Spec2Model ----
(***************************************************************************)
(* A model of risclient (src/src/lib.rs): the RIS Live websocket client.   *)
(*                                                                         *)
(* stream_custom connects, sends one subscribe frame, spawns a forwarding  *)
(* loop that decodes inbound frames into RisResponse values and pushes     *)
(* them into a std::sync::mpsc channel, and returns the Receiver.          *)
(*                                                                         *)
(* Rust's Option<T> is modelled as a sequence: None is <<>> and Some(x) is *)
(* <<x>>.  JSON text is modelled by its structure: a JSON value is a       *)
(* record tagged with its JSON type, an inbound frame is the shape of its  *)
(* text plus, for a JSON object, the keys that are present.                *)
(***************************************************************************)
EXTENDS Integers, Sequences, FiniteSets, TLC

VARIABLES
    client,      \* the RisClient: [host, client_id]
    pc,          \* pc[c]: position of call c inside stream_custom
    args,        \* args[c]: the four filter arguments of call c, until moved
    url,         \* url[c]: the URL call c passed to connect_async
    message,     \* message[c]: the serialized request awaiting tx.send
    result,      \* result[c]: what stream_custom returned to the caller
    conn,        \* conn[c]: the websocket handle (tx) of call c
    outbound,    \* outbound[c]: messages written to the connection
    inbound,     \* inbound[c]: frames tx.next() has yielded to the loop
    loop,        \* loop[c]: state of the spawned forwarding task
    ctx,         \* ctx[c]: the channel's Sender, owned by the task
    crx,         \* crx[c]: the channel's Receiver, owned by the caller
    queue,       \* queue[c]: records buffered in the channel
    received,    \* received[c]: records rx.recv() has returned Ok for
    closedSeen   \* closedSeen[c]: rx.recv() has returned Err(RecvError)

vars == <<client, pc, args, url, message, result, conn, outbound, inbound,
          loop, ctx, crx, queue, received, closedSeen>>

----------------------------------------------------------------------------
(* Bounds *)

MaxCalls == 2
MaxFrames == 3

Calls == 1..MaxCalls

----------------------------------------------------------------------------
(* Option<T> *)

None == <<>>
Some(x) == <<x>>

----------------------------------------------------------------------------
(* Schema layer: responses (lib.rs 9-47, 61-68) *)

default_timestamp == 0

default_unknown_string == "unknown"

RisResponseData_default ==
    [timestamp |-> default_timestamp,
     peer      |-> default_unknown_string,
     peer_asn  |-> default_unknown_string,
     id        |-> default_unknown_string,
     host      |-> default_unknown_string,
     data_type |-> default_unknown_string]

Pow2(n) == 2^n

RECURSIVE Log2(_)
Log2(n) == IF n < 2 THEN 0 ELSE 1 + Log2(n \div 2)

\* The value of a non-negative integer JSON number stored in an f32 field:
\* 24 bits of significand, round to nearest, ties to even.
to_f32(n) ==
    IF n < Pow2(24) THEN n
    ELSE LET ulp == Pow2(Log2(n) - 23)
             q   == n \div ulp
             r   == n % ulp
         IN  IF 2 * r < ulp THEN q * ulp
             ELSE IF 2 * r > ulp THEN (q + 1) * ulp
             ELSE IF q % 2 = 0 THEN q * ulp ELSE (q + 1) * ulp

\* An inbound text frame.  shape is what the text is:
\*   "empty"      the empty string
\*   "blank"      whitespace only
\*   "truncated"  a JSON document cut short (input ends inside a value)
\*   "garbage"    text that is not JSON (a syntax error before the end)
\*   "scalar"     a complete JSON value that is not an object
\*   "object"     a complete JSON object; type and data are its top-level
\*                keys (Option), data's value being the object's keys
Frame(shape, type, data) == [shape |-> shape, type |-> type, data |-> data]

EmptyFrame == Frame("empty", None, None)
BlankFrame == Frame("blank", None, None)
TruncatedFrame == Frame("truncated", None, None)
GarbageFrame == Frame("garbage", None, None)
ScalarFrame == Frame("scalar", None, None)
\* {"type":"pong"}: an object with no data key
NoDataFrame == Frame("object", Some("pong"), None)
\* {"type":"ris_message","data":{"peer":"192.0.2.1"}}
PeerFrame == Frame("object", Some("ris_message"), Some([peer |-> "192.0.2.1"]))
\* {"data":{"timestamp":1568279796,"peer_asn":"64512","type":"UPDATE"}}
UpdateFrame ==
    Frame("object", None,
          Some([timestamp |-> 1568279796, peer_asn |-> "64512", type |-> "UPDATE"]))

Frames == {EmptyFrame, BlankFrame, TruncatedFrame, GarbageFrame, ScalarFrame,
           NoDataFrame, PeerFrame, UpdateFrame}

IsBlank(f) == f.shape \in {"empty", "blank"}

Ok(v) == [ok |-> TRUE, err |-> "", value |-> Some(v)]
Err(category) == [ok |-> FALSE, err |-> category, value |-> None]

\* a loop with no tolerated decode error
is_eof_never(e) == FALSE

\* serde_json::Error::is_eof
is_eof(e) == e.err = "eof"

Field(d, key, dflt) == IF key \in DOMAIN d THEN d[key] ELSE dflt

\* Deserialize for RisResponseData: every field has a serde default.
RisResponseData_deserialize(d) ==
    [timestamp |-> IF "timestamp" \in DOMAIN d THEN to_f32(d["timestamp"])
                   ELSE default_timestamp,
     peer      |-> Field(d, "peer", default_unknown_string),
     peer_asn  |-> Field(d, "peer_asn", default_unknown_string),
     id        |-> Field(d, "id", default_unknown_string),
     host      |-> Field(d, "host", default_unknown_string),
     data_type |-> Field(d, "type", default_unknown_string)]

\* Deserialize for RisResponse: message_type has a serde default, data has
\* none, so an object without a data key is a "missing field" error.
RisResponse_deserialize(f) ==
    IF f.data = None THEN Err("data")
    ELSE Ok([message_type |-> IF f.type = None THEN default_unknown_string
                              ELSE f.type[1],
             data |-> RisResponseData_deserialize(f.data[1])])

\* serde_json::from_str::<RisResponse>
from_str(f) ==
    CASE f.shape \in {"empty", "blank"} -> Err("eof")
      [] f.shape = "truncated"          -> Err("eof")
      [] f.shape = "garbage"            -> Err("syntax")
      [] f.shape = "scalar"             -> Err("data")
      [] f.shape = "object"             -> RisResponse_deserialize(f)

----------------------------------------------------------------------------
(* Schema layer: requests (lib.rs 49-58, 70-76) *)

JNull == [t |-> "null"]
JString(s) == [t |-> "string", v |-> s]
JNumber(n) == [t |-> "number", v |-> n]
JArray(s) == [t |-> "array", v |-> s]
JObject(o) == [t |-> "object", v |-> o]

\* Serialize for Option<String>: no skip_serializing_if, None is null
ser_opt_string(o) == IF o = None THEN JNull ELSE JString(o[1])

\* a path written back to front
ser_opt_path_reversed(o) ==
    IF o = None THEN JNull
    ELSE JArray([i \in 1..Len(o[1]) |-> JNumber(o[1][Len(o[1]) + 1 - i])])

\* Serialize for Option<Vec<u32>>
ser_opt_path(o) ==
    IF o = None THEN JNull
    ELSE JArray([i \in 1..Len(o[1]) |-> JNumber(o[1][i])])

RisRequestData_serialize(d) ==
    JObject([host    |-> ser_opt_string(d.host),
             type    |-> ser_opt_string(d.data_type),
             require |-> ser_opt_string(d.require),
             path    |-> ser_opt_path(d.path)])

\* serde_json::to_string(&request)
to_string(request) ==
    JObject([type |-> JString(request.message_type),
             data |-> IF request.data = None THEN JNull
                      ELSE RisRequestData_serialize(request.data[1])])

RisRequest(host, data_type, require, path) ==
    [message_type |-> "ris_subscribe",
     data |-> Some([host |-> host, data_type |-> data_type,
                    require |-> require, path |-> path])]

----------------------------------------------------------------------------
(* Client construction (lib.rs 78-124) *)

RisClient_new(host, client_id) == [host |-> host, client_id |-> client_id]

RisClient_default == [host |-> "ris-live.ripe.net", client_id |-> "rust-risclient"]

Clients == {RisClient_default, RisClient_new("example.org", "cid")}

\* a URL with the two fields in each other's place
format_url_swapped(self) == <<"wss://", self.client_id, "/v1/ws/?client=", self.host>>

\* format!("wss://{}/v1/ws/?client={}", self.host, self.client_id)
format_url(self) == <<"wss://", self.host, "/v1/ws/?client=", self.client_id>>

----------------------------------------------------------------------------
(* Inputs of stream_custom *)

HostArgs == {None, Some("rrc16")}
TypeArgs == {None, Some("UPDATE")}
RequireArgs == {None, Some("bogus")}
PathArgs == {None, Some(<<64512, 64513>>)}

NoArgs == <<>>

----------------------------------------------------------------------------
(* Initial state: a constructed client, no call made *)

Init ==
    /\ client \in Clients
    /\ pc = [c \in Calls |-> "idle"]
    /\ args = [c \in Calls |-> NoArgs]
    /\ url = [c \in Calls |-> None]
    /\ message = [c \in Calls |-> None]
    /\ result = [c \in Calls |-> "none"]
    /\ conn = [c \in Calls |-> "none"]
    /\ outbound = [c \in Calls |-> <<>>]
    /\ inbound = [c \in Calls |-> <<>>]
    /\ loop = [c \in Calls |-> "none"]
    /\ ctx = [c \in Calls |-> "none"]
    /\ crx = [c \in Calls |-> "none"]
    /\ queue = [c \in Calls |-> <<>>]
    /\ received = [c \in Calls |-> <<>>]
    /\ closedSeen = [c \in Calls |-> FALSE]

----------------------------------------------------------------------------
(* stream_custom (lib.rs 150-199), one action per stretch between awaits *)

\* Entry up to connect_async(url).await.  &mut self: no two calls on the
\* client overlap, so a call starts only when the earlier ones returned.
stream_custom(c, host, data_type, require, path) ==
    /\ pc[c] = "idle"
    /\ \A d \in Calls : d < c => pc[d] = "returned"
    /\ url' = [url EXCEPT ![c] = Some(format_url(client))]
    /\ args' = [args EXCEPT ![c] = <<host, data_type, require, path>>]
    /\ pc' = [pc EXCEPT ![c] = "connecting"]
    /\ UNCHANGED <<client, message, result, conn, outbound, inbound, loop,
                   ctx, crx, queue, received, closedSeen>>

\* a stream that subscribes with a filter of its own
stream_filtered(c) == stream_custom(c, Some("rrc16"), None, None, None)

\* stream (lib.rs 218-220)
stream(c) == stream_custom(c, None, None, None, None)

\* a connect error that is ignored: the call goes on to spawn the loop
connect_err_spawns(c) ==
    /\ pc[c] = "connecting"
    /\ pc' = [pc EXCEPT ![c] = "returned"]
    /\ result' = [result EXCEPT ![c] = "Err_connect"]
    /\ args' = [args EXCEPT ![c] = NoArgs]
    /\ loop' = [loop EXCEPT ![c] = "running"]
    /\ ctx' = [ctx EXCEPT ![c] = "live"]
    /\ UNCHANGED <<client, url, message, conn, outbound, inbound,
                   crx, queue, received, closedSeen>>

\* connect_async returned Err(e): Err(Box::new(e))
connect_err(c) ==
    /\ pc[c] = "connecting"
    /\ pc' = [pc EXCEPT ![c] = "returned"]
    /\ result' = [result EXCEPT ![c] = "Err_connect"]
    /\ args' = [args EXCEPT ![c] = NoArgs]
    /\ UNCHANGED <<client, url, message, conn, outbound, inbound, loop,
                   ctx, crx, queue, received, closedSeen>>

\* a call that spawns the loop and returns the receiver once connected,
\* leaving the subscribe frame unsent
connect_ok_returns(c) ==
    /\ pc[c] = "connecting"
    /\ conn' = [conn EXCEPT ![c] = "open"]
    /\ args' = [args EXCEPT ![c] = NoArgs]
    /\ ctx' = [ctx EXCEPT ![c] = "live"]
    /\ crx' = [crx EXCEPT ![c] = "held"]
    /\ loop' = [loop EXCEPT ![c] = "running"]
    /\ pc' = [pc EXCEPT ![c] = "returned"]
    /\ result' = [result EXCEPT ![c] = "Ok"]
    /\ UNCHANGED <<client, url, message, outbound, inbound, queue, received,
                   closedSeen>>

\* connect_async returned Ok(handle); the request is built and serialized,
\* up to tx.send(message.into()).await
connect_ok(c) ==
    /\ pc[c] = "connecting"
    /\ LET request == RisRequest(args[c][1], args[c][2], args[c][3], args[c][4])
       IN  message' = [message EXCEPT ![c] = Some(to_string(request))]
    /\ conn' = [conn EXCEPT ![c] = "open"]
    /\ args' = [args EXCEPT ![c] = NoArgs]
    /\ pc' = [pc EXCEPT ![c] = "sending"]
    /\ UNCHANGED <<client, url, result, outbound, inbound, loop,
                   ctx, crx, queue, received, closedSeen>>

\* connect_async returned Ok(handle) and serde_json::to_string returned
\* Err(e): return Err(Box::new(e)); the handle is dropped
serialize_err(c) ==
    /\ pc[c] = "connecting"
    /\ conn' = [conn EXCEPT ![c] = "dropped"]
    /\ args' = [args EXCEPT ![c] = NoArgs]
    /\ pc' = [pc EXCEPT ![c] = "returned"]
    /\ result' = [result EXCEPT ![c] = "Err_serialize"]
    /\ UNCHANGED <<client, url, message, outbound, inbound, loop,
                   ctx, crx, queue, received, closedSeen>>

\* tx.send returned Ok: channel(), tokio::spawn(loop), Ok(crx)
send_ok(c) ==
    /\ pc[c] = "sending"
    /\ outbound' = [outbound EXCEPT ![c] = Append(@, message[c][1])]
    /\ message' = [message EXCEPT ![c] = None]
    /\ ctx' = [ctx EXCEPT ![c] = "live"]
    /\ crx' = [crx EXCEPT ![c] = "held"]
    /\ loop' = [loop EXCEPT ![c] = "running"]
    /\ pc' = [pc EXCEPT ![c] = "returned"]
    /\ result' = [result EXCEPT ![c] = "Ok"]
    /\ UNCHANGED <<client, args, url, conn, inbound, queue, received, closedSeen>>

\* a send error that is reported after the loop was spawned
send_err_spawns(c) ==
    /\ pc[c] = "sending"
    /\ message' = [message EXCEPT ![c] = None]
    /\ loop' = [loop EXCEPT ![c] = "running"]
    /\ ctx' = [ctx EXCEPT ![c] = "live"]
    /\ pc' = [pc EXCEPT ![c] = "returned"]
    /\ result' = [result EXCEPT ![c] = "Err_send"]
    /\ UNCHANGED <<client, args, url, conn, outbound, inbound,
                   crx, queue, received, closedSeen>>

\* tx.send returned Err(e): Err(Box::new(e)); the handle is dropped
send_err(c) ==
    /\ pc[c] = "sending"
    /\ message' = [message EXCEPT ![c] = None]
    /\ conn' = [conn EXCEPT ![c] = "dropped"]
    /\ pc' = [pc EXCEPT ![c] = "returned"]
    /\ result' = [result EXCEPT ![c] = "Err_send"]
    /\ UNCHANGED <<client, args, url, outbound, inbound, loop,
                   ctx, crx, queue, received, closedSeen>>

----------------------------------------------------------------------------
(* The forwarding loop (lib.rs 172-191), one action per iteration *)

\* a panic that takes every running task down with it
task_exit_all(c, how) ==
    /\ loop' = [d \in Calls |-> IF loop[d] = "running" THEN how ELSE loop[d]]
    /\ ctx' = [d \in Calls |-> IF loop[d] = "running" THEN "dropped" ELSE ctx[d]]
    /\ conn' = [d \in Calls |-> IF loop[d] = "running" THEN "dropped" ELSE conn[d]]

\* a task that ends without releasing the Sender
task_exit_leak(c, how) ==
    /\ loop' = [loop EXCEPT ![c] = how]
    /\ ctx' = ctx
    /\ conn' = [conn EXCEPT ![c] = "dropped"]

\* The task is over: a panic unwinds the task (tokio catches it), a normal
\* exit returns; either way the captured tx and ctx are dropped.
task_exit(c, how) ==
    /\ loop' = [loop EXCEPT ![c] = how]
    /\ ctx' = [ctx EXCEPT ![c] = "dropped"]
    /\ conn' = [conn EXCEPT ![c] = "dropped"]

\* a send whose result is ignored
ctx_send_never_fails(c) == FALSE

\* std::sync::mpsc::Sender::send fails iff the Receiver is gone
ctx_send_fails(c) == crx[c] = "dropped"

\* a channel that hands out the newest record first
ctx_send_front(q, data) == <<data>> \o q

\* the channel's buffer after a successful send
ctx_send(q, data) == Append(q, data)

\* a loop over a channel of capacity one, whose send waits for the caller
loop_frame_bounded(c, f) ==
    /\ Len(queue[c]) < 1
    /\ loop[c] = "running"
    /\ Len(inbound[c]) < MaxFrames
    /\ inbound' = [inbound EXCEPT ![c] = Append(@, f)]
    /\ LET data == from_str(f)
       IN  IF ~data.ok
           THEN IF is_eof(data)
                THEN UNCHANGED <<loop, ctx, conn, queue>>
                ELSE task_exit(c, "panic_decode") /\ UNCHANGED queue
           ELSE IF ctx_send_fails(c)
                THEN task_exit(c, "panic_send") /\ UNCHANGED queue
                ELSE /\ queue' = [queue EXCEPT ![c] = ctx_send(@, data.value[1])]
                     /\ UNCHANGED <<loop, ctx, conn>>
    /\ UNCHANGED <<client, pc, args, url, message, result, outbound,
                   crx, received, closedSeen>>

\* tx.next().await yielded Some(Ok(msg)), msg.to_string() is the text f
loop_frame(c, f) ==
    /\ loop[c] = "running"
    /\ Len(inbound[c]) < MaxFrames
    /\ inbound' = [inbound EXCEPT ![c] = Append(@, f)]
    /\ LET data == from_str(f)
       IN  IF ~data.ok
           THEN IF is_eof(data)
                THEN UNCHANGED <<loop, ctx, conn, queue>>
                ELSE task_exit(c, "panic_decode") /\ UNCHANGED queue
           ELSE IF ctx_send_fails(c)
                THEN task_exit(c, "panic_send") /\ UNCHANGED queue
                ELSE /\ queue' = [queue EXCEPT ![c] = ctx_send(@, data.value[1])]
                     /\ UNCHANGED <<loop, ctx, conn>>
    /\ UNCHANGED <<client, pc, args, url, message, result, outbound,
                   crx, received, closedSeen>>

\* a read error after which the Sender stays alive
loop_read_err_leak(c) ==
    /\ loop[c] = "running"
    /\ loop' = [loop EXCEPT ![c] = "panic_read"]
    /\ conn' = [conn EXCEPT ![c] = "dropped"]
    /\ UNCHANGED <<client, pc, args, url, message, result, outbound, inbound,
                   ctx, crx, queue, received, closedSeen>>

\* tx.next().await yielded Some(Err(e)): panic
loop_read_err(c) ==
    /\ loop[c] = "running"
    /\ task_exit(c, "panic_read")
    /\ UNCHANGED <<client, pc, args, url, message, result, outbound, inbound,
                   crx, queue, received, closedSeen>>

\* a loop that answers the end of the stream with a close message
loop_end_close(c) ==
    /\ loop[c] = "running"
    /\ task_exit(c, "ended")
    /\ outbound' = [outbound EXCEPT ![c] = Append(@, JObject([type |-> JString("close")]))]
    /\ UNCHANGED <<client, pc, args, url, message, result, inbound,
                   crx, queue, received, closedSeen>>

\* tx.next().await yielded None: the while let ends
loop_end(c) ==
    /\ loop[c] = "running"
    /\ task_exit(c, "ended")
    /\ UNCHANGED <<client, pc, args, url, message, result, outbound, inbound,
                   crx, queue, received, closedSeen>>

----------------------------------------------------------------------------
(* The caller's side of the channel (ristest.rs 16-22) *)

\* rx.recv() returns Ok(message)
recv_ok(c) ==
    /\ crx[c] = "held"
    /\ queue[c] # <<>>
    /\ received' = [received EXCEPT ![c] = Append(@, Head(queue[c]))]
    /\ queue' = [queue EXCEPT ![c] = Tail(@)]
    /\ UNCHANGED <<client, pc, args, url, message, result, conn, outbound,
                   inbound, loop, ctx, crx, closedSeen>>

\* rx.recv() returns Err(RecvError): buffer empty and the Sender gone
recv_err(c) ==
    /\ crx[c] = "held"
    /\ queue[c] = <<>>
    /\ ctx[c] = "dropped"
    /\ closedSeen' = [closedSeen EXCEPT ![c] = TRUE]
    /\ UNCHANGED <<client, pc, args, url, message, result, conn, outbound,
                   inbound, loop, ctx, crx, queue, received>>

\* a drop of the Receiver that cancels the task at once
drop_crx_cancels(c) ==
    /\ crx[c] = "held"
    /\ crx' = [crx EXCEPT ![c] = "dropped"]
    /\ queue' = [queue EXCEPT ![c] = <<>>]
    /\ loop' = [loop EXCEPT ![c] = IF @ = "running" THEN "panic_send" ELSE @]
    /\ ctx' = [ctx EXCEPT ![c] = "dropped"]
    /\ UNCHANGED <<client, pc, args, url, message, result, conn, outbound,
                   inbound, received, closedSeen>>

\* the caller drops the Receiver; what is still buffered goes with it
drop_crx(c) ==
    /\ crx[c] = "held"
    /\ crx' = [crx EXCEPT ![c] = "dropped"]
    /\ queue' = [queue EXCEPT ![c] = <<>>]
    /\ UNCHANGED <<client, pc, args, url, message, result, conn, outbound,
                   inbound, loop, ctx, received, closedSeen>>

----------------------------------------------------------------------------
(* Specifications *)

NextFor(c) ==
    \/ \E h \in HostArgs, t \in TypeArgs, r \in RequireArgs, p \in PathArgs :
          stream_custom(c, h, t, r, p)
    \/ stream(c)
    \/ connect_err(c)
    \/ connect_ok(c)
    \/ serialize_err(c)
    \/ send_ok(c)
    \/ send_err(c)
    \/ \E f \in Frames : loop_frame(c, f)
    \/ loop_read_err(c)
    \/ loop_end(c)
    \/ recv_ok(c)
    \/ recv_err(c)
    \/ drop_crx(c)

\* one stream_custom call on the client, as in ristest.rs
Next == NextFor(1)

Spec == Init /\ [][Next]_vars

\* ristest.rs: the default client, one stream() call, and a caller that
\* keeps calling rx.recv() and never drops the receiver
RistestInit == Init /\ client = RisClient_default

RistestNext ==
    \/ stream(1)
    \/ connect_err(1)
    \/ connect_ok(1)
    \/ serialize_err(1)
    \/ send_ok(1)
    \/ send_err(1)
    \/ \E f \in Frames : loop_frame(1, f)
    \/ loop_read_err(1)
    \/ loop_end(1)
    \/ recv_ok(1)
    \/ recv_err(1)

RistestSpec ==
    /\ RistestInit
    /\ [][RistestNext]_vars
    /\ WF_vars(recv_ok(1))
    /\ WF_vars(recv_err(1))

\* several calls on one client, one after the other (&mut self), whose
\* connections, loops and receivers then live side by side
MaxMultiFrames == 1

\* what the service sends on connection c: the connections carry different
\* messages, so that a record tells which connection it came from
MultiFrames(c) == {GarbageFrame, IF c % 2 = 1 THEN PeerFrame ELSE UpdateFrame}

MultiInit == Init /\ client = RisClient_new("example.org", "cid")

multi_loop_frame(c, f) == Len(inbound[c]) < MaxMultiFrames /\ loop_frame(c, f)

MultiNextFor(c) ==
    \/ stream(c)
    \/ connect_err(c)
    \/ connect_ok(c)
    \/ serialize_err(c)
    \/ send_ok(c)
    \/ send_err(c)
    \/ \E f \in MultiFrames(c) : multi_loop_frame(c, f)
    \/ loop_read_err(c)
    \/ loop_end(c)
    \/ recv_ok(c)
    \/ recv_err(c)
    \/ drop_crx(c)

MultiNext == \E c \in Calls : MultiNextFor(c)

MultiSpec == MultiInit /\ [][MultiNext]_vars

\* one stream whose only inbound frame is a JSON object with a data object
\* holding any subset of the six keys, with or without a top-level type
DataKeys == {"timestamp", "peer", "peer_asn", "id", "host", "type"}

SampleValue(k, ts) ==
    CASE k = "timestamp" -> ts
      [] k = "peer"      -> "192.0.2.1"
      [] k = "peer_asn"  -> "64512"
      [] k = "id"        -> "192.0.2.1-0001"
      [] k = "host"      -> "rrc16"
      [] k = "type"      -> "UPDATE"

Timestamps == {5, 1568279796}

SchemaFrames ==
    {Frame("object", t, Some([k \in S |-> SampleValue(k, ts)])) :
        t \in {None, Some("ris_message")}, S \in SUBSET DataKeys, ts \in Timestamps}

decode_frame(c, f) == inbound[c] = <<>> /\ loop_frame(c, f)

DecodeNext ==
    \/ stream(1)
    \/ connect_ok(1)
    \/ send_ok(1)
    \/ \E f \in SchemaFrames : decode_frame(1, f)
    \/ recv_ok(1)

DecodeSpec == RistestInit /\ [][DecodeNext]_vars

----------------------------------------------------------------------------
(* Properties *)

Last(s) == s[Len(s)]

\* call c's loop has just taken frame f from the connection
Reads(c) == loop[c] = "running" /\ inbound'[c] # inbound[c]

\* the records of the frames of s that decode, in the order of s
Decodings(s) ==
    LET good == SelectSeq(s, LAMBDA f : from_str(f).ok)
    IN  [i \in 1..Len(good) |-> from_str(good[i]).value[1]]

AllDecode(s) == \A i \in 1..Len(s) : from_str(s[i]).ok

\* C1 (safety part): while the caller holds the receiver, what it has
\* received followed by what is buffered is the decoding of the frames
\* read, frame by frame
C1_InOrder ==
    \A c \in Calls :
        (crx[c] = "held" /\ AllDecode(inbound[c])) =>
            /\ Len(received[c]) + Len(queue[c]) = Len(inbound[c])
            /\ received[c] \o queue[c] =
                   [i \in 1..Len(inbound[c]) |-> from_str(inbound[c][i]).value[1]]

\* C1: N frames that all decode, read in order, reach a caller that keeps
\* receiving as exactly N records, the i-th being the decoding of the i-th
\* frame: nothing dropped, reordered or duplicated, and every enqueued
\* record is eventually received (checked under RistestSpec)
C1_OrderPreservation ==
    /\ []C1_InOrder
    /\ \A c \in Calls : \A n \in 1..MaxFrames :
          (crx[c] = "held" /\ Len(received[c]) + Len(queue[c]) >= n)
              ~> (crx[c] = "dropped" \/ Len(received[c]) >= n)

C1_Witness ==
    \E c \in Calls :
        /\ Len(inbound[c]) >= 2
        /\ AllDecode(inbound[c])
        /\ inbound[c][1] # inbound[c][2]
        /\ crx[c] = "held"
        /\ Len(received[c]) = Len(inbound[c])

\* C2: a frame that is empty or whitespace only enqueues nothing and leaves
\* the loop running, and a frame that decodes right after a blank one is
\* enqueued
C2_BlankFrameTolerance ==
    [][\A c \in Calls :
          /\ (Reads(c) /\ IsBlank(Last(inbound'[c]))) =>
                (queue'[c] = queue[c] /\ loop'[c] = "running" /\ ctx'[c] = "live")
          /\ (/\ Reads(c)
              /\ inbound[c] # <<>>
              /\ IsBlank(Last(inbound[c]))
              /\ from_str(Last(inbound'[c])).ok
              /\ crx[c] = "held") =>
                queue'[c] = Append(queue[c], from_str(Last(inbound'[c])).value[1])
      ]_vars

C2_Witness ==
    \E c \in Calls :
        /\ inbound[c] = <<EmptyFrame, BlankFrame, PeerFrame>>
        /\ Len(received[c]) = 1
        /\ loop[c] = "running"

\* C3 (safety part): once recv has reported the channel closed, the caller
\* has every record that was enqueued, in order, and gets no more
C3_ClosedIsFinal ==
    /\ [](\A c \in Calls : closedSeen[c] =>
             (queue[c] = <<>> /\ received[c] = Decodings(inbound[c])))
    /\ [][\A c \in Calls : closedSeen[c] =>
             (closedSeen'[c] /\ received'[c] = received[c]
              /\ inbound'[c] = inbound[c])]_vars

\* C3: when the inbound stream ends the loop terminates and releases the
\* Sender, and a caller that keeps receiving obtains every enqueued record
\* in order and then sees the channel closed for good (checked under
\* RistestSpec)
C3_StreamClosure ==
    /\ [](\A c \in Calls : loop[c] = "ended" => ctx[c] = "dropped")
    /\ C3_ClosedIsFinal
    /\ \A c \in Calls :
          (loop[c] = "ended") ~> (closedSeen[c] \/ crx[c] = "dropped")

\* the end-to-end scenario: "", then a ris_message with only peer, then close
C3_Witness ==
    \E c \in Calls :
        /\ inbound[c] = <<EmptyFrame, PeerFrame>>
        /\ loop[c] = "ended"
        /\ closedSeen[c]
        /\ received[c] =
             << [message_type |-> "ris_message",
                 data |-> [timestamp |-> 0, peer |-> "192.0.2.1",
                           peer_asn |-> "unknown", id |-> "unknown",
                           host |-> "unknown", data_type |-> "unknown"]] >>

\* C4: a frame that is a JSON object without a data key decodes to a
\* Response whose data is all defaults, which is enqueued, and the loop
\* goes on
C4_AbsentDataDecodes ==
    [][\A c \in Calls :
          (/\ Reads(c)
           /\ crx[c] = "held"
           /\ Last(inbound'[c]).shape = "object"
           /\ Last(inbound'[c]).data = None) =>
              /\ loop'[c] = "running"
              /\ Len(queue'[c]) = Len(queue[c]) + 1
              /\ Last(queue'[c]).data = RisResponseData_default
      ]_vars

\* C5: every frame that is not blank and fails to decode ends the loop
C5_MalformedIsFatal ==
    [][\A c \in Calls :
          (/\ Reads(c)
           /\ ~IsBlank(Last(inbound'[c]))
           /\ ~from_str(Last(inbound'[c])).ok) =>
              loop'[c] # "running"
      ]_vars

\* the keys of the four filter arguments that are Some
PresentKeys(a) ==
    {k \in {"host", "type", "require", "path"} :
        \/ k = "host" /\ a[1] # None
        \/ k = "type" /\ a[2] # None
        \/ k = "require" /\ a[3] # None
        \/ k = "path" /\ a[4] # None}

\* C6: the keys of data in the encoded subscribe frame are exactly the
\* keys of the arguments that are present, and no key has the value null
C6_OmitAbsentKeys ==
    [][\A c \in Calls :
          (pc[c] = "connecting" /\ pc'[c] = "sending") =>
              LET data == message'[c][1].v.data.v
              IN  /\ DOMAIN data = PresentKeys(args[c])
                  /\ \A k \in DOMAIN data : data[k] # JNull
      ]_vars

\* C7: after a failed connect the call has returned an error, nothing was
\* sent, and there is no channel and no forwarding loop
C7_ConnectFailure ==
    \A c \in Calls :
        result[c] = "Err_connect" =>
            /\ pc[c] = "returned"
            /\ conn[c] = "none"
            /\ outbound[c] = <<>>
            /\ inbound[c] = <<>>
            /\ ctx[c] = "none" /\ crx[c] = "none"
            /\ loop[c] = "none"

C7_Witness == \E c \in Calls : result[c] = "Err_connect" /\ url[c] # None

\* C8: after a failed serialization or a failed send the call has returned
\* an error, no loop runs, no inbound frame is read and the caller holds no
\* receiver
C8_SubscribeFailure ==
    \A c \in Calls :
        result[c] \in {"Err_serialize", "Err_send"} =>
            /\ pc[c] = "returned"
            /\ loop[c] = "none"
            /\ inbound[c] = <<>>
            /\ ctx[c] = "none" /\ crx[c] = "none"
            /\ queue[c] = <<>> /\ received[c] = <<>>

C8_Witness == \E c \in Calls : result[c] = "Err_send" /\ conn[c] = "dropped"

\* C9: a connection carries at most one outbound message, the subscribe
\* frame, written on the open connection before the loop exists or has
\* read anything; nothing is written afterwards
C9_SingleOutboundFrame ==
    /\ [](\A c \in Calls :
             /\ Len(outbound[c]) <= 1
             /\ outbound[c] # <<>> =>
                   (outbound[c][1].v.type = JString("ris_subscribe")
                    /\ conn[c] # "none")
             /\ (inbound[c] # <<>> \/ loop[c] # "none") => Len(outbound[c]) = 1)
    /\ [][\A c \in Calls :
             outbound'[c] # outbound[c] =>
                 (conn[c] = "open" /\ loop[c] = "none" /\ inbound[c] = <<>>)]_vars

C9_Witness ==
    \E c \in Calls :
        Len(outbound[c]) = 1 /\ Len(inbound[c]) >= 2 /\ loop[c] = "ended"

\* C10: with the receiver dropped, the next frame that decodes makes the
\* enqueue fail and ends the loop there; nothing is enqueued and a loop
\* that has ended reads nothing more
C10_ConsumerDrop ==
    [][\A c \in Calls :
          crx[c] = "dropped" =>
              /\ (Reads(c) /\ from_str(Last(inbound'[c])).ok) =>
                     (loop'[c] = "panic_send" /\ ctx'[c] = "dropped")
              /\ loop[c] # "running" => inbound'[c] = inbound[c]
              /\ queue'[c] = queue[c]
      ]_vars

C10_Witness ==
    \E c \in Calls :
        /\ crx[c] = "dropped"
        /\ loop[c] = "panic_send"
        /\ Len(inbound[c]) >= 2
        /\ IsBlank(inbound[c][Len(inbound[c]) - 1])

\* everything call c owns: its position, connection, loop and channel
CallState(c) ==
    <<pc[c], args[c], url[c], message[c], result[c], conn[c], outbound[c],
      inbound[c], loop[c], ctx[c], crx[c], queue[c], received[c], closedSeen[c]>>

IsPrefix(s, t) == Len(s) <= Len(t) /\ \A i \in 1..Len(s) : s[i] = t[i]

\* C11: every call has its own connection, loop and queue: what a caller
\* received from a call's queue is the decoding of frames of that call's
\* connection, and a step of one call (its loop ending, panicking, its
\* receiver being dropped, or any other) changes nothing of another call
C11_IndependentStreams ==
    /\ [](\A c \in Calls :
             /\ IsPrefix(received[c], Decodings(inbound[c]))
             /\ crx[c] = "held" => received[c] \o queue[c] = Decodings(inbound[c]))
    /\ [][\A c, d \in Calls :
             (c # d /\ CallState(c)' # CallState(c)) => CallState(d)' = CallState(d)
       ]_vars

C11_Witness ==
    /\ loop[1] = "panic_decode"
    /\ closedSeen[1]
    /\ loop[2] = "running"
    /\ ctx[2] = "live"
    /\ crx[2] = "held"
    /\ received[2] = <<from_str(UpdateFrame).value[1]>>

\* the field of RisResponseData that holds JSON key k
FieldOf(data, k) == IF k = "type" THEN data.data_type ELSE data[k]

\* C12: the record decoded from an object frame has, for every key of data
\* that is present, the frame's value, for every omitted key its default
\* (timestamp 0, the strings "unknown"), and messageType "unknown" when the
\* top-level type is missing
C12_DefaultSubstitution ==
    \A c \in Calls :
        (Len(inbound[c]) = 1 /\ crx[c] = "held") =>
            LET f  == inbound[c][1]
                rs == received[c] \o queue[c]
            IN  /\ Len(rs) = 1
                /\ rs[1].message_type = (IF f.type = None THEN "unknown" ELSE f.type[1])
                /\ \A k \in DataKeys :
                      FieldOf(rs[1].data, k) =
                          (IF k \in DOMAIN f.data[1] THEN f.data[1][k]
                           ELSE IF k = "timestamp" THEN 0 ELSE "unknown")

\* the subscribe frame of stream_custom(None, None, None, None)
UnfilteredSubscribe ==
    JObject([type |-> JString("ris_subscribe"),
             data |-> JObject([host |-> JNull, type |-> JNull,
                               require |-> JNull, path |-> JNull])])

\* C13: a call made through stream() does what
\* stream_custom(None, None, None, None) does: it passes four None
\* arguments, connects to the client's URL, sends the unfiltered subscribe
\* frame and returns an error or the receiver of the decoded records
\* (checked under RistestSpec, where the only entry is stream())
C13_StreamIsUnfiltered ==
    \A c \in Calls :
        /\ args[c] # NoArgs => args[c] = <<None, None, None, None>>
        /\ url[c] # None =>
              url[c] = Some(<<"wss://", "ris-live.ripe.net",
                              "/v1/ws/?client=", "rust-risclient">>)
        /\ message[c] # None => message[c] = Some(UnfilteredSubscribe)
        /\ outbound[c] # <<>> => outbound[c] = <<UnfilteredSubscribe>>
        /\ result[c] \in {"none", "Ok", "Err_connect", "Err_serialize", "Err_send"}
        /\ result[c] = "Ok" => outbound[c] = <<UnfilteredSubscribe>>
        /\ crx[c] = "held" => received[c] \o queue[c] = Decodings(inbound[c])

C13_Witness ==
    /\ result[1] = "Ok"
    /\ outbound[1] = <<UnfilteredSubscribe>>
    /\ Len(received[1]) >= 1

\* C14: no call changes the client, and every call on it, failed or not,
\* connects to wss://{host}/v1/ws/?client={clientId} of the values the
\* client was constructed with (checked under MultiSpec, whose client is
\* RisClient::new("example.org", "cid"))
C14_ClientUnchanged ==
    /\ [](client = [host |-> "example.org", client_id |-> "cid"])
    /\ [][client' = client]_vars
    /\ [](\A c \in Calls :
             /\ pc[c] = "idle" => url[c] = None
             /\ pc[c] # "idle" =>
                   url[c] = Some(<<"wss://", "example.org", "/v1/ws/?client=", "cid">>))

C14_Witness ==
    /\ result[1] = "Err_connect"
    /\ result[2] = "Ok"
    /\ url[1] = url[2]
    /\ url[2] # None

Fatal == {"panic_read", "panic_decode"}

\* C15: after a read error or a fatal decode failure the loop reads and
\* enqueues nothing more, what was enqueued before stays receivable in
\* order, and a caller that keeps receiving gets it all and then sees the
\* channel closed (checked under RistestSpec)
C15_FatalEndsStream ==
    /\ [](\A c \in Calls : loop[c] \in Fatal =>
             /\ ctx[c] = "dropped"
             /\ received[c] \o queue[c] = Decodings(inbound[c]))
    /\ [][\A c \in Calls : loop[c] \in Fatal =>
             /\ loop'[c] = loop[c]
             /\ inbound'[c] = inbound[c]
             /\ received'[c] \o queue'[c] = received[c] \o queue[c]]_vars
    /\ \A c \in Calls :
          (loop[c] \in Fatal) ~>
              (closedSeen[c] /\ queue[c] = <<>> /\ received[c] = Decodings(inbound[c]))

C15_Witness ==
    \E c \in Calls :
        /\ loop[c] = "panic_read"
        /\ closedSeen[c]
        /\ received[c] = <<from_str(PeerFrame).value[1], from_str(UpdateFrame).value[1]>>

\* C16: stream_custom returns Ok only from the step in which the send on the
\* open connection succeeds, and that step hands out the receiver while the
\* loop it has just spawned is running and has read nothing
C16_ReturnsAfterSend ==
    /\ [](\A c \in Calls :
             /\ pc[c] # "returned" => (result[c] = "none" /\ crx[c] = "none")
             /\ result[c] = "Ok" => (conn[c] # "none" /\ Len(outbound[c]) = 1))
    /\ [][\A c \in Calls :
             (result[c] # "Ok" /\ result'[c] = "Ok") =>
                 /\ pc[c] = "sending" /\ conn[c] = "open"
                 /\ outbound'[c] = <<message[c][1]>>
                 /\ crx'[c] = "held"
                 /\ loop'[c] = "running" /\ inbound'[c] = <<>> /\ queue'[c] = <<>>
       ]_vars

C16_Witness ==
    \E c \in Calls :
        /\ result[c] = "Ok"
        /\ crx[c] = "held"
        /\ loop[c] = "running"
        /\ inbound[c] = <<>>

\* C17: the serialized request has type "ris_subscribe" and a data object
\* whatever the arguments are, each argument that is Some is in data with
\* the value passed (path element by element, in order), and that text is
\* what is sent
C17_SubscribeFrame ==
    [][\A c \in Calls :
          /\ (pc[c] = "connecting" /\ pc'[c] = "sending") =>
                LET m == message'[c][1]
                    a == args[c]
                IN  /\ m.t = "object"
                    /\ m.v.type = JString("ris_subscribe")
                    /\ m.v.data.t = "object"
                    /\ a[1] # None => m.v.data.v.host = JString(a[1][1])
                    /\ a[2] # None => m.v.data.v.type = JString(a[2][1])
                    /\ a[3] # None => m.v.data.v.require = JString(a[3][1])
                    /\ a[4] # None =>
                          /\ m.v.data.v.path.t = "array"
                          /\ Len(m.v.data.v.path.v) = Len(a[4][1])
                          /\ \A i \in 1..Len(a[4][1]) :
                                m.v.data.v.path.v[i] = JNumber(a[4][1][i])
          /\ outbound'[c] # outbound[c] => outbound'[c] = <<message[c][1]>>
      ]_vars

C17_Witness ==
    \E c \in Calls :
        /\ Len(outbound[c]) = 1
        /\ outbound[c][1].v.data.v.host = JNull
        /\ outbound[c][1].v.data.v.require = JString("bogus")
        /\ outbound[c][1].v.data.v.path = JArray(<<JNumber(64512), JNumber(64513)>>)

\* C18: a running loop can always take and enqueue the next frame, however
\* many records the caller has left in the channel; enqueueing is one step
\* of the loop that leaves the caller's side alone
C18_UnboundedQueue ==
    /\ [](\A c \in Calls :
             (loop[c] = "running" /\ Len(inbound[c]) < MaxFrames) =>
                 ENABLED loop_frame(c, PeerFrame))
    /\ [][\A c \in Calls :
             (Reads(c) /\ crx[c] = "held" /\ from_str(Last(inbound'[c])).ok) =>
                 /\ queue'[c] = Append(queue[c], from_str(Last(inbound'[c])).value[1])
                 /\ received'[c] = received[c]
                 /\ loop'[c] = "running"
       ]_vars

C18_Witness ==
    \E c \in Calls :
        /\ crx[c] = "held"
        /\ received[c] = <<>>
        /\ Len(queue[c]) = MaxFrames
        /\ loop[c] = "running"

\* C19 as stated: with the receiver dropped, a running loop stops only when
\* the stream ends, a read fails, or a frame decodes (the failed enqueue)
C19_DropOnlyEndsAtEnqueue ==
    [][\A c \in Calls :
          (crx[c] = "dropped" /\ loop[c] = "running" /\ loop'[c] # "running") =>
              \/ loop'[c] \in {"ended", "panic_read"}
              \/ Reads(c) /\ from_str(Last(inbound'[c])).ok
      ]_vars

\* C19 (amended): dropping the receiver does not touch the loop; with the
\* receiver dropped a frame that is skipped leaves the loop running, and
\* the loop stops only when the stream ends, a read fails, a frame decodes
\* (the failed enqueue), or a frame fails to decode with an error that is
\* not EOF
C19_DropDetectedAtEnqueue ==
    [][\A c \in Calls :
          /\ (crx[c] = "held" /\ crx'[c] = "dropped") =>
                (loop'[c] = loop[c] /\ ctx'[c] = ctx[c] /\ inbound'[c] = inbound[c])
          /\ (crx[c] = "dropped" /\ Reads(c)
              /\ from_str(Last(inbound'[c])).err = "eof") =>
                (loop'[c] = "running" /\ ctx'[c] = "live")
          /\ (crx[c] = "dropped" /\ loop[c] = "running" /\ loop'[c] # "running") =>
                \/ loop'[c] \in {"ended", "panic_read"}
                \/ /\ Reads(c) /\ from_str(Last(inbound'[c])).ok
                   /\ loop'[c] = "panic_send"
                \/ /\ Reads(c) /\ ~from_str(Last(inbound'[c])).ok
                   /\ from_str(Last(inbound'[c])).err # "eof"
                   /\ loop'[c] = "panic_decode"
      ]_vars

C19_Witness ==
    \E c \in Calls :
        /\ crx[c] = "dropped"
        /\ loop[c] = "running"
        /\ received[c] = <<>>
        /\ inbound[c] = <<EmptyFrame, TruncatedFrame, BlankFrame>>

====
